---- MODULE Spec2Model ----
(***************************************************************************)
(* State-machine model of the projection viewer: the HomeView controller   *)
(* (plain and PDF-export variants), the dataStore and the MapTab component *)
(* that owns the D3 surface.  The browser event loop is modelled as        *)
(* macrotasks (clicks, timers, fetch completion) that run only when the    *)
(* queue of nextTick / watcher callbacks (ticks) has been drained.         *)
(***************************************************************************)
EXTENDS Integers, Sequences, FiniteSets, TLC

VARIABLES
  variant,   \* which HomeView source is mounted: "base" or "export"
  phase,     \* component lifecycle: "created", "mounted", "unmounted"
  hv,        \* HomeView refs: currentProjection, centerMode, viewMode, isExporting
  store,     \* dataStore: mapInstance, pending retry timers
  map,       \* MapTab setup() state
  rect,      \* mapContainer.getBoundingClientRect(): <<width, height>>
  ticks,     \* queued nextTick / watcher callbacks (microtasks), FIFO
  ex,        \* the downloadPdf coroutine
  obs,       \* observations: console reports of the current task, data seen by builds
  clicks,    \* number of user actions so far
  env,       \* what MapTab is given: the boundary file, how d3's fitting behaves
  dom        \* the SVG surface: the paths drawn in g and gBorder

vars == <<variant, phase, hv, store, map, rect, ticks, ex, obs, clicks, env, dom>>

-----------------------------------------------------------------------------
(* Bounds of the model *)

\* number of catalog entries kept (the source lists 103)
NumLayers == 3
\* number of user actions (clicks, calls into HomeView) in one session
MaxClicks == 2
\* number of features in a boundary file
MaxFeatures == 2
\* projection selections made through the map interface
MaxCalls == 3
\* resize notifications counted in one burst
MaxBurst == 2

-----------------------------------------------------------------------------
(* dataStore: catalog *)

AllLayers ==
  << [layerId |-> "AzimuthalEqualArea", layerName |-> "Azimuthal Equal Area",
      type |-> "AzimuthalEqualArea", scale |-> 100],
     [layerId |-> "AzimuthalEquidistant", layerName |-> "Azimuthal Equidistant",
      type |-> "AzimuthalEquidistant", scale |-> 80],
     [layerId |-> "ConicConformal", layerName |-> "Conic Conformal",
      type |-> "ConicConformal", scale |-> 100],
     [layerId |-> "Mercator", layerName |-> "Mercator",
      type |-> "Mercator", scale |-> 70] >>

layers == SubSeq(AllLayers, 1, IF NumLayers < Len(AllLayers) THEN NumLayers ELSE Len(AllLayers))

NoLayer == [layerId |-> "null", layerName |-> "null", type |-> "null", scale |-> 0]

LayerIds == {layers[i].layerId : i \in DOMAIN layers}

\* an id no catalog entry carries
UnknownId == "NoSuchProjection"

\* findLayerById whose loop stops one entry short of the end
findLayerById_SkipsLast(layerId) ==
  IF \E i \in 1..(Len(layers) - 1) : layers[i].layerId = layerId
    THEN layers[CHOOSE i \in 1..(Len(layers) - 1) :
                  /\ layers[i].layerId = layerId
                  /\ \A j \in 1..(Len(layers) - 1) : layers[j].layerId = layerId => i <= j]
    ELSE NoLayer

findLayerById(layerId) ==
  IF \E i \in DOMAIN layers : layers[i].layerId = layerId
    THEN layers[CHOOSE i \in DOMAIN layers :
                  /\ layers[i].layerId = layerId
                  /\ \A j \in DOMAIN layers : layers[j].layerId = layerId => i <= j]
    ELSE NoLayer

\* the catalog as the store holds it: one group with every entry
layerGroups == <<[groupName |-> "projections", groupLayers |-> layers]>>

RECURSIVE pushGroups(_, _)
\* allLayers.push(...group.groupLayers) for each group from g on
pushGroups(allLayers, g) ==
  IF g > Len(layerGroups) THEN allLayers
  ELSE pushGroups(allLayers \o layerGroups[g].groupLayers, g + 1)

getAllLayers == pushGroups(<<>>, 1)

\* Array.prototype.find over the catalog by display name
findLayerByName(layerName) ==
  IF \E i \in DOMAIN layers : layers[i].layerName = layerName
    THEN layers[CHOOSE i \in DOMAIN layers :
                  /\ layers[i].layerName = layerName
                  /\ \A j \in DOMAIN layers : layers[j].layerName = layerName => i <= j]
    ELSE NoLayer

-----------------------------------------------------------------------------
(* MapTab: constants *)

\* coordinates in units of 1e-7 degree
TAIWAN_CENTER == <<1209820246, 239738747>>

centerPresets ==
  [origin |-> <<0, 0>>, taiwan |-> TAIWAN_CENTER, lon120 |-> <<1200000000, 0>>]

maxAttempts == 20

padding == 32

conicConformalScale == 5000

\* the cases of createProjection's switch that the catalog kept here uses
KnownTypes == {AllLayers[i].type : i \in DOMAIN AllLayers}

supportsCenterMethod ==
  {"Albers", "ConicEqualArea", "ConicEquidistant", "AzimuthalEqualArea",
   "AzimuthalEquidistant", "Gnomonic", "Orthographic"}

\* scale2 and translate2 hold twice the manual scale and translate, so that
\* Math.min(width, height) / 2 - padding stays exact for odd sizes
NoProjection ==
  [ctor |-> "null", rotate |-> <<0, 0, 0>>, extent |-> <<<<0, 0>>, <<0, 0>>>>,
   fitTarget |-> "null", multiplier |-> 0, view |-> "null",
   center |-> "null", fitted |-> "null", scale2 |-> 0, translate2 |-> <<0, 0>>]

\* container sizes the environment may give the map container
Sizes == {<<0, 0>>, <<800, 600>>, <<400, 300>>}

-----------------------------------------------------------------------------
(* Boundary data: strings, features, files *)

\* a string is a sequence of tokens: " " is white space, any other token is
\* text without white space; <<>> is the empty string, undefined or null
NoStr == <<>>

RECURSIVE trimStart(_)
trimStart(str) ==
  IF str # <<>> /\ Head(str) = " " THEN trimStart(Tail(str)) ELSE str

RECURSIVE trimEnd(_)
trimEnd(str) ==
  IF str # <<>> /\ str[Len(str)] = " "
    THEN trimEnd(SubSeq(str, 1, Len(str) - 1))
    ELSE str

\* String.prototype.trim
trim(str) == trimEnd(trimStart(str))

RECURSIVE firstTruthy(_)
\* a || b || c ... over strings
firstTruthy(strs) ==
  IF strs = <<>> THEN NoStr
  ELSE IF Head(strs) # NoStr THEN Head(strs)
  ELSE firstTruthy(Tail(strs))

homeCountry == <<"Taiwan">>

isHomeCountry(countryName) ==
  IF countryName = NoStr THEN FALSE ELSE trim(countryName) = homeCountry

\* a GeoJSON feature: props tells whether it has a properties object;
\* geom is "ok", "null" (no geometry) or "malformed" (coordinates unusable)
BlankFeature ==
  [props |-> TRUE, name |-> NoStr, ADMIN |-> NoStr, NAME |-> NoStr,
   adm0_a3 |-> NoStr, ADM0_A3 |-> NoStr, ISO_A3 |-> NoStr, iso_a3 |-> NoStr,
   id |-> NoStr, geom |-> "ok"]

Taiwan ==
  [BlankFeature EXCEPT !.NAME = <<"Taiwan">>, !.ADMIN = <<"Taiwan">>,
                       !.ADM0_A3 = <<"TWN">>, !.ISO_A3 = <<"TWN">>]
Japan ==
  [BlankFeature EXCEPT !.NAME = <<"Japan">>, !.ADMIN = <<"Japan">>,
                       !.ADM0_A3 = <<"JPN">>, !.ISO_A3 = <<"JPN">>]
\* named by a padded lower-case name only
TaiwanPadded == [BlankFeature EXCEPT !.name = <<" ", "Taiwan", " ">>]
\* named by adm0_a3 only
TaiwanByCode == [BlankFeature EXCEPT !.adm0_a3 = <<"Taiwan">>]
\* "properties": null
NullProps == [BlankFeature EXCEPT !.props = FALSE]
\* a polygon whose coordinates are missing
BadGeometry == [BlankFeature EXCEPT !.NAME = <<"Atlantis">>, !.geom = "malformed"]

\* "geometry": null
NoGeometry == [BlankFeature EXCEPT !.NAME = <<"Nowhere">>, !.geom = "null"]
\* properties without any of the names and no id
Unnamed == BlankFeature

\* the features a boundary file is made of, by name
FeaturePool ==
  [Taiwan |-> Taiwan, Japan |-> Japan, TaiwanPadded |-> TaiwanPadded,
   TaiwanByCode |-> TaiwanByCode, NullProps |-> NullProps,
   BadGeometry |-> BadGeometry, NoGeometry |-> NoGeometry, Unnamed |-> Unnamed]

\* the boundary files: every sequence of at most MaxFeatures features
WorldFiles ==
  UNION {[1..n -> DOMAIN FeaturePool] : n \in 0..MaxFeatures}

\* the file shipped with the page, cut to two countries
NominalFile == <<"Taiwan", "Japan">>

\* d3 fits every projection and reads the shipped file
NominalEnv == [fit |-> "ok", fallback |-> "ok", features |-> NominalFile]

-----------------------------------------------------------------------------
(* The SVG surface *)

\* the surface before createMap, and after svg.remove()
NoDom ==
  [sphere |-> 0, countries |-> <<>>, guides |-> <<>>,
   gridLines |-> 0]

guideIds ==
  <<"guide-longitude-taiwan-east", "guide-longitude-taiwan-west",
    "guide-latitude-taiwan", "guide-longitude-0-east", "guide-longitude-0-west",
    "guide-equator">>

\* the key of a data join: a string, or idx-<index> when i >= 0
KeyOf(str, i) == [s |-> str, i |-> i]

featureKey(feature, index) ==
  LET named == IF feature.props
                 THEN firstTruthy(<<feature.ADM0_A3, feature.adm0_a3, feature.ISO_A3,
                                    feature.iso_a3, feature.NAME, feature.ADMIN,
                                    feature.name>>)
                 ELSE NoStr
      k == IF named # NoStr THEN named ELSE feature.id
  IN IF k # NoStr THEN KeyOf(k, 0 - 1) ELSE KeyOf(NoStr, index)

guideKey(d, index) == KeyOf(<<d>>, 0 - 1)

\* the keys of the six guide lines
guideKeys == [j \in DOMAIN guideIds |-> guideKey(guideIds[j], j - 1)]

\* selection.data(data, key) of d3-selection, over the keys of the data the
\* nodes carry and the keys of the new data: a node is bound to the first
\* datum carrying its key, unless an earlier node has the same key; every
\* other datum enters and every other node exits.  update[j] is the node
\* bound to datum j, or 0 when datum j enters.
bindKey(nodeKey, dataKey) ==
  LET inMap(i) == \A h \in 1..(i - 1) : nodeKey[h] # nodeKey[i]
      firstDatum(j) == \A h \in 1..(j - 1) : dataKey[h] # dataKey[j]
  IN [j \in DOMAIN dataKey |->
        IF firstDatum(j) /\ \E i \in DOMAIN nodeKey : nodeKey[i] = dataKey[j] /\ inMap(i)
          THEN CHOOSE i \in DOMAIN nodeKey : nodeKey[i] = dataKey[j] /\ inMap(i)
          ELSE 0]

\* the position in the document order of the node bound to datum j
placeOf(order, j) == CHOOSE q \in DOMAIN order : order[q].j = j

insertAt(order, pos, node) ==
  SubSeq(order, 1, pos - 1) \o <<node>> \o SubSeq(order, pos, Len(order))

RECURSIVE nextUpdate(_, _)
\* the first datum from h on that is bound to an old node (0: none)
nextUpdate(update, h) ==
  IF h > Len(update) THEN 0
  ELSE IF update[h] # 0 THEN h
  ELSE nextUpdate(update, h + 1)

\* enter().append() of one datum: before the next updated node in data
\* order, or at the end of the parent
insertBefore(order, next, j) ==
  insertAt(order, IF next = 0 THEN Len(order) + 1 ELSE placeOf(order, next),
           [j |-> j, old |-> 0])

RECURSIVE insertEntered(_, _, _)
insertEntered(order, update, j) ==
  IF j > Len(update) THEN order
  ELSE IF update[j] # 0 THEN insertEntered(order, update, j + 1)
  ELSE insertEntered(insertBefore(order, nextUpdate(update, j + 1), j), update, j + 1)

RECURSIVE keptNodes(_, _, _)
\* exit().remove(): the nodes no datum was bound to leave the document
keptNodes(n, update, i) ==
  IF i > n THEN <<>>
  ELSE (IF \E j \in DOMAIN update : update[j] = i
          THEN <<[j |-> CHOOSE j \in DOMAIN update : update[j] = i, old |-> i]>>
          ELSE <<>>)
       \o keptNodes(n, update, i + 1)

joined(n, update) == insertEntered(keptNodes(n, update, 1), update, 1)

\* the join followed by exit().remove() and enter().append(): in document
\* order, the datum of each node and the old node it reuses (0: entered)
dataJoin(nodeKey, dataKey) == joined(Len(nodeKey), bindKey(nodeKey, dataKey))

-----------------------------------------------------------------------------
(* The world record threads the whole program state through nested calls *)

World ==
  [variant |-> variant, phase |-> phase, hv |-> hv, store |-> store, map |-> map,
   rect |-> rect, ticks |-> ticks, ex |-> ex, clicks |-> clicks,
   env |-> env,
   ghost |-> [rebuilds |-> 0, renders |-> 0, combos |-> {}, thrown |-> FALSE,
              paints |-> <<>>, burst |-> 0,
              reports |-> obs.reports, buildData |-> obs.buildData,
              loadAttempts |-> obs.loadAttempts, early |-> obs.early]]

Report(w, msg) == [w EXCEPT !.ghost.reports = @ \cup {msg}]

\* a macrotask starts with a clean console
Task == [World EXCEPT !.ghost.reports = {}]

-----------------------------------------------------------------------------
(* MapTab *)

getFitTarget == "Sphere"

\* createProjection whose catch block leaves the projection as constructed
createProjection_NoFallback(w, type, width, height) ==
  LET coords == w.map.currentCenterCoords
      fit == w.env.fit
      centred == /\ fit # "absent" /\ type # "ConicConformal"
                 /\ type \in supportsCenterMethod /\ w.map.currentViewMode = "world"
      fitted == IF fit = "ok" THEN "fitExtent"
                ELSE IF fit = "absent" /\ w.env.fallback = "ok" THEN "manual" ELSE "none"
  IN [ctor |-> IF type \in KnownTypes THEN type ELSE "AzimuthalEquidistant",
      rotate |-> <<0 - coords[1], 0 - coords[2], 0>>,
      extent |-> <<<<padding, padding>>, <<width - padding, height - padding>>>>,
      fitTarget |-> getFitTarget,
      multiplier |-> IF type = "ConicConformal" /\ fit = "ok"
                       THEN conicConformalScale ELSE 1,
      view |-> w.map.currentViewMode,
      center |-> IF centred THEN "zero" ELSE "default",
      fitted |-> fitted,
      scale2 |-> IF fitted = "manual"
                   THEN (IF width < height THEN width ELSE height) - 2 * padding
                   ELSE 0,
      translate2 |-> IF fitted = "manual" THEN <<width, height>> ELSE <<0, 0>>]

\* createProjection in which the rotate([0, 0]) of the ConicConformal
\* constructor is the last word on the rotation
createProjection_ConicKeepsRotate(w, type, width, height) ==
  LET coords == w.map.currentCenterCoords
      fit == w.env.fit
      manualOk == w.env.fallback = "ok"
      centred == /\ fit # "absent" /\ type # "ConicConformal"
                 /\ type \in supportsCenterMethod /\ w.map.currentViewMode = "world"
      fitted == IF fit = "ok" THEN "fitExtent"
                ELSE IF manualOk THEN "manual" ELSE "none"
  IN [ctor |-> IF type \in KnownTypes THEN type ELSE "AzimuthalEquidistant",
      rotate |-> IF type = "ConicConformal"
                   THEN <<0, 0, 0>>
                   ELSE <<0 - coords[1], 0 - coords[2], 0>>,
      extent |-> <<<<padding, padding>>, <<width - padding, height - padding>>>>,
      fitTarget |-> getFitTarget,
      multiplier |-> IF type = "ConicConformal" /\ fit = "ok"
                       THEN conicConformalScale ELSE 1,
      view |-> w.map.currentViewMode,
      center |-> IF centred THEN "zero" ELSE "default",
      fitted |-> fitted,
      scale2 |-> IF fitted = "manual"
                   THEN (IF width < height THEN width ELSE height) - 2 * padding
                   ELSE 0,
      translate2 |-> IF fitted = "manual" THEN <<width, height>> ELSE <<0, 0>>]

\* the projection is rebuilt from scratch: the switch, rotate, then the fit
\* inside try / catch with the manual scale and translate as fallback; the
\* proj.rotate(rotation) after the switch replaces whatever rotation the
\* constructor chain of a case set
createProjection(w, type, width, height) ==
  LET coords == w.map.currentCenterCoords
      fit == w.env.fit
      manualOk == w.env.fallback = "ok"
      centred == /\ fit # "absent" /\ type # "ConicConformal"
                 /\ type \in supportsCenterMethod /\ w.map.currentViewMode = "world"
      fitted == IF fit = "ok" THEN "fitExtent"
                ELSE IF manualOk THEN "manual" ELSE "none"
  IN [ctor |-> IF type \in KnownTypes THEN type ELSE "AzimuthalEquidistant",
      rotate |-> <<0 - coords[1], 0 - coords[2], 0>>,
      extent |-> <<<<padding, padding>>, <<width - padding, height - padding>>>>,
      fitTarget |-> getFitTarget,
      multiplier |-> IF type = "ConicConformal" /\ fit = "ok"
                       THEN conicConformalScale ELSE 1,
      view |-> w.map.currentViewMode,
      center |-> IF centred THEN "zero" ELSE "default",
      fitted |-> fitted,
      scale2 |-> IF fitted = "manual"
                   THEN (IF width < height THEN width ELSE height) - 2 * padding
                   ELSE 0,
      translate2 |-> IF fitted = "manual" THEN <<width, height>> ELSE <<0, 0>>]

\* bookkeeping of one createProjection call
Built(w, proj) ==
  LET w1 == [w EXCEPT !.map.projection = proj,
                      !.ghost.rebuilds = @ + 1,
                      !.ghost.buildData = @ \cup {w.map.worldData}]
  IN IF w.env.fit = "throws"
       THEN Report(IF w.env.fallback = "throws" THEN Report(w1, "fallbackFailed") ELSE w1,
                   "fitExtentFailed")
       ELSE w1

\* the name getFeaturesForView tests: the first of the tolerated keys
viewName(feature) ==
  IF feature.props
    THEN firstTruthy(<<feature.name, feature.ADMIN, feature.NAME, feature.adm0_a3,
                       feature.ADM0_A3>>)
    ELSE NoStr

\* the fill callback of renderCountries; it reads d.properties unguarded
countryFill(d) ==
  IF ~d.props THEN "TypeError"
  ELSE IF isHomeCountry(firstTruthy(<<d.name, d.ADMIN, d.NAME>>)) THEN "#ff0000"
  ELSE "#999999"

\* d3.geoPath on a feature: a path, nothing for a null geometry, or an
\* exception on coordinates it cannot walk
pathOf(d) ==
  IF d.geom = "malformed" THEN "TypeError"
  ELSE IF d.geom = "null" THEN "null"
  ELSE "path"

\* what the callbacks give for each feature of the pool
keptInTaiwanView == {n \in DOMAIN FeaturePool : isHomeCountry(viewName(FeaturePool[n]))}
fillOfFeature == [n \in DOMAIN FeaturePool |-> countryFill(FeaturePool[n])]
pathOfFeature == [n \in DOMAIN FeaturePool |-> pathOf(FeaturePool[n])]
ownKeyOfFeature == [n \in DOMAIN FeaturePool |-> featureKey(FeaturePool[n], 0).s]

RECURSIVE filterHome(_, _)
\* features.filter(...) of getFeaturesForView, from position r on
filterHome(data, r) ==
  IF r > Len(data) THEN <<>>
  ELSE (IF data[r] \in keptInTaiwanView THEN <<r>> ELSE <<>>) \o filterHome(data, r + 1)

\* the features kept for the view, each a reference to its object in
\* worldData: its position there
getFeaturesForView(data, view) ==
  IF view = "taiwan" THEN filterHome(data, 1) ELSE [r \in DOMAIN data |-> r]

renderSphereBorder(d) == [d EXCEPT !.sphere = 1]

RECURSIVE firstThrow(_, _)
\* the data index from j on at which an attribute callback throws (0: none)
firstThrow(values, j) ==
  IF j > Len(values) THEN 0
  ELSE IF values[j] = "TypeError" THEN j
  ELSE firstThrow(values, j + 1)

\* attr('d', ...) runs over every node before attr('fill', ...) starts
throwsAt(features, paths, fills) ==
  [features |-> features, paths |-> paths, fills |-> fills,
   dThrow |-> firstThrow(paths, 1),
   fThrow |-> IF firstThrow(paths, 1) # 0 THEN 1 ELSE firstThrow(fills, 1)]

attrsOf(data, features) ==
  throwsAt(features,
           [j \in DOMAIN features |-> pathOfFeature[data[features[j]]]],
           [j \in DOMAIN features |-> fillOfFeature[data[features[j]]]])

\* what attr('d', path) and attr('fill', ...) of renderCountries compute for
\* the features of the view, and where they throw
countryAttrs(data, view) == attrsOf(data, getFeaturesForView(data, view))

thrownIn(a) == a.dThrow # 0 \/ a.fThrow # 0

\* renderCountries ends in an exception
renderCountriesThrows(data, view) == thrownIn(countryAttrs(data, view))

keyOfRef(own, index) ==
  IF own # NoStr THEN KeyOf(own, 0 - 1) ELSE KeyOf(NoStr, index)

withPath(a, j, node) ==
  IF a.dThrow = 0 \/ j < a.dThrow THEN [node EXCEPT !.d = a.paths[j]] ELSE node

withFill(a, j, node) ==
  IF a.fThrow = 0 \/ j < a.fThrow THEN [node EXCEPT !.fill = a.fills[j]] ELSE node

\* the path element of datum o.j: appended, or the old one with its new datum
countryNode(old, a, o) ==
  withFill(a, o.j,
    withPath(a, o.j,
      IF o.old = 0
        THEN [datum |-> a.features[o.j], d |-> "unset", fill |-> "unset"]
        ELSE [old[o.old] EXCEPT !.datum = a.features[o.j]]))

countryNodes(old, a, order) ==
  [q \in DOMAIN order |-> countryNode(old, a, order[q])]

joinCountries(old, data, a) ==
  countryNodes(old, a,
    dataJoin([q \in DOMAIN old |-> keyOfRef(ownKeyOfFeature[data[old[q].datum]], q - 1)],
             [j \in DOMAIN a.features |->
                keyOfRef(ownKeyOfFeature[data[a.features[j]]], j - 1)]))

\* renderCountries that appends a path per feature without joining
renderCountries_AppendOnly(d, data, view) ==
  [d EXCEPT !.countries =
     @ \o countryNodes(<<>>, countryAttrs(data, view),
                       [j \in DOMAIN getFeaturesForView(data, view) |->
                          [j |-> j, old |-> 0]])]

\* the data join by featureKey, then attr('d', path) and attr('fill', ...)
\* over the entered and updated nodes in data order
renderCountries(d, data, view) ==
  [d EXCEPT !.countries = joinCountries(@, data, countryAttrs(data, view))]

renderGridLines(d) == [d EXCEPT !.gridLines = 0]

guideNodes(order) == [q \in DOMAIN order |-> guideIds[order[q].j]]

\* the six guide lines, joined by id; when the six paths are there already
\* the join binds each to its own datum and nothing enters or exits
renderTaiwanGuides(d) ==
  IF d.guides = guideIds THEN d
  ELSE [d EXCEPT !.guides =
          guideNodes(dataJoin([q \in DOMAIN @ |-> guideKey(@[q], q - 1)], guideKeys))]

\* an exception in renderCountries skips the steps after it
afterCountries(d, thrown) ==
  IF thrown THEN d ELSE renderTaiwanGuides(renderGridLines(d))

\* what one handler step does to the document: a fresh svg, its removal, or
\* the four render steps
paint(d, data, op) ==
  IF op.step # "render" THEN NoDom
  ELSE afterCountries(renderCountries(renderSphereBorder(d), data, op.view),
                      renderCountriesThrows(data, op.view))

RECURSIVE painted(_, _, _)
\* the handlers write the document and never read it: the writes of one
\* handler are applied in order
painted(d, data, ops) ==
  IF ops = <<>> THEN d ELSE painted(paint(d, data, Head(ops)), data, Tail(ops))

Painted(w) == painted(dom, w.env.features, w.ghost.paints)

rendered(w, thrown) ==
  LET w1 == [w EXCEPT !.ghost.renders = @ + 1,
                      !.ghost.buildData = @ \cup {w.map.worldData},
                      !.ghost.thrown = thrown,
                      !.ghost.paints =
                         IF w.map.svg
                           THEN Append(@, [step |-> "render",
                                           view |-> w.map.currentViewMode])
                           ELSE @]
  IN IF thrown
       THEN w1
       ELSE [w1 EXCEPT
               !.map.drawn = [proj |-> w.map.projection,
                              centerMode |-> w.map.currentCenterMode,
                              viewMode |-> w.map.currentViewMode],
               !.ghost.combos = @ \cup {<<w.map.currentViewMode,
                                          w.map.currentCenterMode>>}]

\* renderSphereBorder, renderCountries, renderGridLines, renderTaiwanGuides;
\* each step returns at once without the surface
RenderAll(w) ==
  rendered(w, /\ w.map.svg /\ w.map.worldData = "loaded"
              /\ renderCountriesThrows(w.env.features, w.map.currentViewMode))

\* changeProjection that returns early when the type is the current one
MT_changeProjection_SkipsSameType(w, type, scale) ==
  IF ~w.map.svg \/ ~w.map.mapContainer \/ type = w.map.currentProjectionType
    THEN w
    ELSE LET w1 == [w EXCEPT !.map.currentProjectionType = type,
                             !.map.currentScale = scale]
         IN RenderAll(Built(w1, createProjection(w1, type, w1.rect[1], w1.rect[2])))

MT_changeProjection(w, type, scale) ==
  IF ~w.map.svg \/ ~w.map.mapContainer
    THEN w
    ELSE LET w1 == [w EXCEPT !.map.currentProjectionType = type,
                             !.map.currentScale = scale]
         IN RenderAll(Built(w1, createProjection(w1, type, w1.rect[1], w1.rect[2])))

setMapCenter(w, mode) ==
  LET preset == IF mode \in DOMAIN centerPresets
                  THEN centerPresets[mode] ELSE centerPresets.origin
      w1 == [w EXCEPT !.map.currentCenterMode = mode,
                      !.map.currentCenterCoords = preset]
  IN IF w1.map.isMapReady
       THEN MT_changeProjection(w1, w1.map.currentProjectionType, w1.map.currentScale)
       ELSE w1

\* the tail of setViewMode: if (isMapReady.value) changeProjection(...)
rebuildIfReady(w) ==
  IF w.ghost.thrown \/ ~w.map.isMapReady
    THEN w
    ELSE MT_changeProjection(w, w.map.currentProjectionType, w.map.currentScale)

MT_setViewMode(w, mode) ==
  LET normalized == IF mode = "taiwan" THEN "taiwan" ELSE "world"
      previousMode == w.map.currentViewMode
  IN IF w.map.currentViewMode = normalized /\ w.map.isMapReady
       THEN IF normalized = "taiwan" /\ w.map.currentCenterMode # "taiwan"
              THEN setMapCenter(w, "taiwan")
              ELSE w
       ELSE LET w1 == [w EXCEPT !.map.currentViewMode = normalized]
                recenter == normalized = "taiwan" /\ w1.map.currentCenterMode # "taiwan"
                w2 == IF recenter THEN setMapCenter(w1, "taiwan") ELSE w1
            IN IF recenter /\ previousMode # normalized
                 THEN w2
                 ELSE rebuildIfReady(w2)

\* the console.log that ends invalidateSize
sizeUpdated(w) == IF w.ghost.thrown THEN w ELSE Report(w, "sizeUpdated")

\* invalidateSize that keeps the dimensions of the previous build
invalidateSize_PreviousSize(w) ==
  IF ~w.map.svg \/ ~w.map.mapContainer
    THEN w
    ELSE sizeUpdated(RenderAll(Built(w,
           createProjection(w, w.map.currentProjectionType,
                            w.map.projection.extent[2][1] + padding,
                            w.map.projection.extent[2][2] + padding))))

\* invalidateSize that does not wait for the surface
invalidateSize_NoSvgGuard(w) ==
  IF ~w.map.mapContainer
    THEN w
    ELSE sizeUpdated(RenderAll(Built(w, createProjection(w, w.map.currentProjectionType,
                                                         w.rect[1], w.rect[2]))))

invalidateSize(w) ==
  IF ~w.map.svg \/ ~w.map.mapContainer
    THEN w
    ELSE sizeUpdated(RenderAll(Built(w, createProjection(w, w.map.currentProjectionType,
                                                         w.rect[1], w.rect[2]))))

\* catch (error) { console.error(...) } of drawWorldMap
drawCaught(w) ==
  IF w.ghost.thrown
    THEN Report([w EXCEPT !.ghost.thrown = FALSE], "drawFailed")
    ELSE w

\* the render steps inside try / catch
drawWorldMap(w) ==
  IF ~w.map.svg \/ w.map.worldData # "loaded"
    THEN Report(w, "cannotDraw")
    ELSE drawCaught(RenderAll(w))

-----------------------------------------------------------------------------
(* dataStore *)

setMapInstance(w) == [w EXCEPT !.store.mapInstance = TRUE]

\* changeProjection that goes on without a catalog entry
\* catch (error) { console.error(...) } around the call into the map
Caught(w) ==
  IF w.ghost.thrown
    THEN Report([w EXCEPT !.ghost.thrown = FALSE], "changeFailed")
    ELSE w

DS_changeProjection_NoLookupCheck(w, projectionId) ==
  LET projectionLayer == findLayerById(projectionId)
  IN IF ~w.store.mapInstance
       THEN [Report(w, "mapNotReady") EXCEPT !.store.retry = Append(@, projectionId)]
       ELSE IF projectionLayer = NoLayer
              THEN Report(w, "changeFailed")
              ELSE MT_changeProjection(w, projectionLayer.type, projectionLayer.scale)

DS_changeProjection(w, projectionId) ==
  LET projectionLayer == findLayerById(projectionId)
  IN IF projectionLayer = NoLayer
       THEN Report(w, "unknownProjection")
       ELSE IF ~w.store.mapInstance
              THEN [Report(w, "mapNotReady") EXCEPT
                      !.store.retry = Append(@, projectionId)]
              ELSE Caught(MT_changeProjection(w, projectionLayer.type,
                                              projectionLayer.scale))

\* the setTimeout callback of changeProjection, 1000 ms after the request
retryChangeProjection(w, projectionId) ==
  IF w.store.mapInstance
    THEN DS_changeProjection(w, projectionId)
    ELSE Report(w, "mapStillNotReady")

-----------------------------------------------------------------------------
(* HomeView *)

Tick(kind, arg) == [kind |-> kind, arg |-> arg]

projections == layers

HV_changeProjection(w, projectionId) ==
  LET projection == findLayerById(projectionId)
      changed == projection # NoLayer /\ projection.layerName # w.hv.currentProjection
      w1 == IF projection # NoLayer
              THEN [w EXCEPT !.hv.currentProjection = projection.layerName,
                             !.ghost.early = ~w.store.mapInstance]
              ELSE w
      \* the MapTab watcher on the currentProjection prop runs in the next flush
      w2 == IF changed /\ w.phase = "mounted"
              THEN [w1 EXCEPT !.ticks = Append(@, Tick("watch", "prop"))]
              ELSE w1
  IN DS_changeProjection(w2, projectionId)

setCenterMode(w, mode) ==
  LET w1 == [w EXCEPT !.hv.centerMode = mode]
  IN IF w1.store.mapInstance
       THEN [w1 EXCEPT !.ticks = Append(@, Tick("setMapCenter", mode))]
       ELSE w1

\* setViewMode that forgets to force the centre in home-country view
setViewModeBase_NoRecenter(w, mode) ==
  LET normalized == IF mode = "taiwan" THEN "taiwan" ELSE "world"
      w1 == [w EXCEPT !.hv.viewMode = normalized]
  IN IF w1.store.mapInstance
       THEN [w1 EXCEPT !.ticks = Append(@, Tick("setViewMode", normalized))]
       ELSE w1

\* setViewMode that resets the centre when it leaves home-country view
setViewModeBase_ResetsCenter(w, mode) ==
  LET normalized == IF mode = "taiwan" THEN "taiwan" ELSE "world"
      w1 == [w EXCEPT !.hv.viewMode = normalized]
      w2 == IF w1.store.mapInstance
              THEN [w1 EXCEPT !.ticks = Append(@, Tick("setViewMode", normalized))]
              ELSE w1
  IN IF normalized = "taiwan"
       THEN setCenterMode(w2, "taiwan")
       ELSE setCenterMode(w2, "origin")

\* src/views/HomeView.vue
setViewModeBase(w, mode) ==
  LET normalized == IF mode = "taiwan" THEN "taiwan" ELSE "world"
      w1 == [w EXCEPT !.hv.viewMode = normalized]
      w2 == IF w1.store.mapInstance
              THEN [w1 EXCEPT !.ticks = Append(@, Tick("setViewMode", normalized))]
              ELSE w1
  IN IF normalized = "taiwan" THEN setCenterMode(w2, "taiwan") ELSE w2

\* the HomeView with downloadPdf
setViewModeExport(w, mode) ==
  LET normalized == IF mode = "taiwan" THEN "taiwan" ELSE "world"
      w1 == [w EXCEPT !.hv.viewMode = normalized]
      w2 == IF w1.store.mapInstance
              THEN [w1 EXCEPT !.ticks = Append(@, Tick("setViewMode", normalized))]
              ELSE w1
  IN IF normalized = "taiwan"
       THEN setCenterMode(w2, "taiwan")
       ELSE setCenterMode(w2, "origin")

HV_setViewMode(w, mode) ==
  IF w.variant = "export" THEN setViewModeExport(w, mode) ELSE setViewModeBase(w, mode)

HV_setMapInstance(w) ==
  [setMapInstance(w) EXCEPT !.ticks = Append(@, Tick("syncMap", "map"))]

\* the watch(() => props.currentProjection) callback of MapTab
watchCurrentProjection(w) ==
  LET newProjection == w.hv.currentProjection
      layer == findLayerByName(newProjection)
  IN IF w.map.isMapReady /\ layer # NoLayer
       THEN MT_changeProjection(w, layer.type, layer.scale)
       ELSE w

-----------------------------------------------------------------------------
(* MapTab: start-up *)

createMap(w) ==
  LET w1 == [w EXCEPT !.map.svg = TRUE,
                      !.ghost.paints = Append(@, [step |-> "svg", view |-> "null"])]
      w2 == Built(w1, createProjection(w1, w1.map.currentProjectionType,
                                       w1.rect[1], w1.rect[2]))
      w3 == [w2 EXCEPT !.map.isMapReady = TRUE]
  IN HV_setMapInstance(w3)

\* createMap that does not test mapContainer.value
canCreateMap_NoContainerCheck(w) == w.rect[1] # 0 /\ w.rect[2] # 0

\* the guards of createMap: the container exists and has a size
canCreateMap(w) == w.map.mapContainer /\ w.rect[1] # 0 /\ w.rect[2] # 0

\* tryCreateMap without the test of attempts against maxAttempts
tryCreateMap_NoCap(w) ==
  LET w1 == [w EXCEPT !.map.attempts = @ + 1]
  IN IF canCreateMap(w1)
       THEN drawWorldMap(createMap([w1 EXCEPT !.map.attempts = 0]))
       ELSE [w1 EXCEPT !.map.createTimer = TRUE]

\* attempts is a local of initMap: it is dropped when tryCreateMap stops rescheduling
tryCreateMap(w) ==
  IF w.map.attempts >= maxAttempts
    THEN Report(w, "initFailed")
    ELSE LET w1 == [w EXCEPT !.map.attempts = @ + 1]
         IN IF canCreateMap(w1)
              THEN drawWorldMap(createMap([w1 EXCEPT !.map.attempts = 0]))
              ELSE [w1 EXCEPT !.map.createTimer = TRUE]

-----------------------------------------------------------------------------
(* HomeView with downloadPdf: the export coroutine, cut at its awaits *)

IdleExport ==
  [pc |-> "idle", idx |-> 0,
   prev |-> [projectionId |-> "null", center |-> "null", view |-> "null"],
   targetView |-> "null", captured |-> "null",
   selected |-> <<>>, pages |-> <<>>,
   setupWaited |-> FALSE, waited |-> FALSE, saved |-> FALSE, failed |-> FALSE,
   touched |-> FALSE]

\* a cleanup that leaves the centre to setViewMode
exportFinally_NoCenterRestore(w) ==
  LET w1 == HV_changeProjection(w, w.ex.prev.projectionId)
      w2 == HV_setViewMode(w1, w.ex.prev.view)
  IN [w2 EXCEPT !.ex.pc = "waitFinal"]

\* finally { changeProjection; setViewMode; setCenterMode; await waitForRender() ...
exportFinally(w) ==
  LET w1 == HV_changeProjection(w, w.ex.prev.projectionId)
      w2 == HV_setViewMode(w1, w.ex.prev.view)
      w3 == setCenterMode(w2, w.ex.prev.center)
  IN [w3 EXCEPT !.ex.pc = "waitFinal"]

\* a loop that captures right after selecting, without awaiting the render
exportNext_NoRenderWait(w) ==
  IF w.ex.idx < Len(projections)
    THEN LET layer == projections[w.ex.idx + 1]
             w1 == [w EXCEPT !.ex.idx = @ + 1,
                             !.ex.selected = Append(@, layer.layerId),
                             !.ex.waited = FALSE]
             w2 == HV_changeProjection(w1, layer.layerId)
         IN [w2 EXCEPT !.ex.pc = "capturing",
                       !.ex.captured = w2.map.currentProjectionType]
    ELSE exportFinally([w EXCEPT !.ex.saved = (w.ex.pages # <<>>)])

\* the head of the for loop: the next catalog entry, or pdf.save and the cleanup
exportNext(w) ==
  IF w.ex.idx < Len(projections)
    THEN LET layer == projections[w.ex.idx + 1]
             w1 == [w EXCEPT !.ex.idx = @ + 1,
                             !.ex.selected = Append(@, layer.layerId),
                             !.ex.waited = FALSE]
         IN [HV_changeProjection(w1, layer.layerId) EXCEPT !.ex.pc = "waitRender"]
    ELSE exportFinally([w EXCEPT !.ex.saved = (w.ex.pages # <<>>)])

\* downloadPdf that does not test isExporting
downloadPdf_NoBusyGuard(w, mode) ==
  IF FALSE
    THEN w
    ELSE IF ~w.store.mapInstance
      THEN Report(w, "exportWithoutMap")
      ELSE IF Len(projections) = 0
        THEN Report(w, "nothingToExport")
        ELSE
          LET targetView == IF mode = "taiwan" THEN "taiwan" ELSE "world"
              targetCenter == IF mode = "taiwan" THEN "taiwan" ELSE "origin"
              previousLayer == findLayerByName(w.hv.currentProjection)
              previousProjectionId == IF previousLayer # NoLayer
                                        THEN previousLayer.layerId
                                        ELSE projections[1].layerId
              w1 == [w EXCEPT
                       !.hv.isExporting = TRUE,
                       !.ex = [IdleExport EXCEPT
                                 !.pc = "waitSetup",
                                 !.targetView = targetView,
                                 !.prev = [projectionId |-> previousProjectionId,
                                           center |-> w.hv.centerMode,
                                           view |-> w.hv.viewMode]]]
          IN setCenterMode(HV_setViewMode(w1, targetView), targetCenter)

\* downloadPdf up to its first await; the silent return of a call made during
\* an export is noted as exportBusy
downloadPdf(w, mode) ==
  IF w.hv.isExporting
    THEN Report(w, "exportBusy")
    ELSE IF ~w.store.mapInstance
      THEN Report(w, "exportWithoutMap")
      ELSE IF Len(projections) = 0
        THEN Report(w, "nothingToExport")
        ELSE
          LET targetView == IF mode = "taiwan" THEN "taiwan" ELSE "world"
              targetCenter == IF mode = "taiwan" THEN "taiwan" ELSE "origin"
              previousLayer == findLayerByName(w.hv.currentProjection)
              previousProjectionId == IF previousLayer # NoLayer
                                        THEN previousLayer.layerId
                                        ELSE projections[1].layerId
              w1 == [w EXCEPT
                       !.hv.isExporting = TRUE,
                       !.ex = [IdleExport EXCEPT
                                 !.pc = "waitSetup",
                                 !.targetView = targetView,
                                 !.prev = [projectionId |-> previousProjectionId,
                                           center |-> w.hv.centerMode,
                                           view |-> w.hv.viewMode]]]
          IN setCenterMode(HV_setViewMode(w1, targetView), targetCenter)

\* waitForRender resolves: nextTick, one animation frame and 120 ms have passed
exportResume(w) ==
  IF w.ex.pc = "waitSetup"
    THEN exportNext([w EXCEPT !.ex.setupWaited = TRUE])
    ELSE IF w.ex.pc = "waitRender"
      \* getSvgNode, then captureSvgAsImage serialises the surface as it is now
      THEN [w EXCEPT !.ex.waited = TRUE, !.ex.pc = "capturing",
                     !.ex.captured = w.map.currentProjectionType]
      \* the locals of downloadPdf are gone once it has returned
      ELSE [w EXCEPT !.hv.isExporting = FALSE, !.ex = IdleExport]

\* the image of the serialised surface loads (ok) or fails to
exportCaptured(w, ok) ==
  IF ok
    THEN exportNext([w EXCEPT !.ex.pages =
                       Append(@, [name |-> projections[w.ex.idx].layerName,
                                  shown |-> w.ex.captured])])
    ELSE exportFinally([Report(w, "exportFailed") EXCEPT !.ex.failed = TRUE])

-----------------------------------------------------------------------------
(* Initial state: after setup() of HomeView and MapTab *)

CenterArgs == {"origin", "taiwan", "lon120"}
ViewArgs == {"world", "taiwan"}

Start(variants, sizes, envs) ==
  /\ variant \in variants
  /\ phase = "created"
  /\ hv = [currentProjection |-> "Azimuthal Equidistant", centerMode |-> "origin",
           viewMode |-> "world", isExporting |-> FALSE]
  /\ store = [mapInstance |-> FALSE, retry |-> <<>>]
  /\ map = [mapContainer |-> FALSE, svg |-> FALSE, isMapReady |-> FALSE,
            worldData |-> "null", loadState |-> "idle",
            currentProjectionType |-> "AzimuthalEquidistant", currentScale |-> 80,
            currentCenterMode |-> "origin", currentCenterCoords |-> centerPresets.origin,
            currentViewMode |-> "world",
            projection |-> NoProjection,
            drawn |-> [proj |-> NoProjection, centerMode |-> "null", viewMode |-> "null"],
            attempts |-> 0, createTimer |-> FALSE,
            resizeObserver |-> FALSE, resizeTimeout |-> 0]
  /\ rect \in sizes
  /\ ticks = <<>>
  /\ ex = IdleExport
  /\ obs = [reports |-> {}, buildData |-> {}, loadAttempts |-> 0, early |-> FALSE,
            burst |-> 0]
  /\ clicks = 0
  /\ env \in envs
  /\ dom = NoDom

Init == Start({"base", "export"}, Sizes, {NominalEnv})

Commit(w) ==
  /\ phase' = w.phase
  /\ hv' = w.hv
  /\ store' = w.store
  /\ map' = w.map
  /\ ticks' = w.ticks
  /\ ex' = w.ex
  /\ clicks' = w.clicks
  /\ dom' = Painted(w)
  /\ obs' = [reports |-> w.ghost.reports \cup
                          (IF w.ghost.thrown THEN {"uncaught"} ELSE {}),
             buildData |-> w.ghost.buildData,
             loadAttempts |-> w.ghost.loadAttempts, early |-> w.ghost.early,
             burst |-> w.ghost.burst]
  /\ UNCHANGED <<variant, rect, env>>

\* macrotasks run only when the microtask queue has been drained
Idle == ticks = <<>>

-----------------------------------------------------------------------------
(* Lifecycle *)

\* onMounted of MapTab (child first), then onMounted of HomeView
OnMounted ==
  /\ phase = "created"
  /\ LET w0 == [Task EXCEPT !.phase = "mounted",
                            !.map.mapContainer = TRUE,
                            !.ticks = Append(@, Tick("initMap", "none"))]
     IN Commit(HV_changeProjection(w0, "AzimuthalEquidistant"))

\* initMap up to `await loadWorldData()`, then setupResizeObserver
initMapStart(w) ==
  [w EXCEPT !.map.loadState = "loading",
            !.ghost.loadAttempts = @ + 1,
            !.map.resizeObserver = w.map.mapContainer]

\* an exception in the first call of a callback skips the second
unlessThrown(w, mode) == IF w.ghost.thrown THEN w ELSE MT_setViewMode(w, mode)

runTick(w, t) ==
  IF t.kind = "initMap" THEN initMapStart(w)
  ELSE IF t.kind = "setMapCenter" THEN setMapCenter(w, t.arg)
  ELSE IF t.kind = "setViewMode" THEN MT_setViewMode(w, t.arg)
  ELSE IF t.kind = "syncMap"
    THEN unlessThrown(setMapCenter(w, w.hv.centerMode), w.hv.viewMode)
  ELSE watchCurrentProjection(w)

RunTick ==
  /\ ticks # <<>>
  /\ Commit(runTick([World EXCEPT !.ticks = Tail(ticks)], Head(ticks)))

\* the fetch of the boundary file settles and initMap continues
loadDone(w, ok) ==
  IF ok
    THEN tryCreateMap([w EXCEPT !.map.worldData = "loaded", !.map.loadState = "loaded"])
    ELSE Report(Report([w EXCEPT !.map.loadState = "failed"], "loadFailed"),
                "cannotLoadWorldData")

LoadDone ==
  /\ Idle
  /\ map.loadState = "loading"
  /\ \E ok \in BOOLEAN : Commit(loadDone(Task, ok))

\* setTimeout(tryCreateMap, 100)
CreateTimerFires ==
  /\ Idle
  /\ map.createTimer
  /\ Commit(tryCreateMap([Task EXCEPT !.map.createTimer = FALSE]))

\* the ResizeObserver callback that arms a timer and clears none
resizeNotified_NoClear(pending) == pending + 1

\* the ResizeObserver callback: clearTimeout(resizeTimeout), then
\* setTimeout(..., 200); resizeTimeout is held as the number of timers pending
resizeNotified(pending) == 0 + 1

\* the container changes size; an attached ResizeObserver restarts the
\* debounce.  When counted, obs.burst is the number of notifications in a
\* row up to this one, and after the timer fired the number it fired for
Resized(counted) ==
  /\ Idle
  /\ phase = "mounted"
  /\ \E r \in Sizes \ {rect} :
       /\ rect' = r
       /\ map' = [map EXCEPT !.resizeTimeout =
                               IF map.resizeObserver THEN resizeNotified(@) ELSE @]
  /\ obs' = [obs EXCEPT !.reports = {},
                        !.burst = IF ~counted \/ ~map.resizeObserver THEN 0
                                  ELSE IF map.resizeTimeout = 0 THEN 1
                                  ELSE IF @ < MaxBurst THEN @ + 1 ELSE @]
  /\ UNCHANGED <<variant, phase, hv, store, ticks, ex, clicks, env, dom>>

ContainerResize == Resized(FALSE)

\* the same, with the notifications of a burst counted
ResizeNotification == Resized(TRUE)

\* a 200 ms debounce timer fires: console.log, then invalidateSize()
ResizeTimerFires ==
  /\ Idle
  /\ map.resizeTimeout > 0
  /\ Commit(invalidateSize([Task EXCEPT !.map.resizeTimeout = @ - 1,
                                         !.ghost.burst = obs.burst]))

\* the 1000 ms retry timer of dataStore.changeProjection
RetryTimerFires ==
  /\ Idle
  /\ store.retry # <<>>
  /\ Commit(retryChangeProjection([Task EXCEPT !.store.retry = Tail(@)],
                                  Head(store.retry)))

onUnmounted(w) ==
  [w EXCEPT !.phase = "unmounted",
            !.map.resizeTimeout = 0, !.map.resizeObserver = FALSE,
            !.map.svg = FALSE, !.map.projection = NoProjection,
            !.ghost.paints = Append(@, [step |-> "remove", view |-> "null"]),
            !.map.drawn = [proj |-> NoProjection, centerMode |-> "null",
                           viewMode |-> "null"],
            !.map.isMapReady = FALSE, !.map.mapContainer = FALSE]

Unmount ==
  /\ Idle
  /\ phase = "mounted"
  /\ Commit(onUnmounted(Task))

-----------------------------------------------------------------------------
(* User actions and calls into HomeView *)

\* a user action is a macrotask of its own, possible while the page is mounted
\* (ex.touched notes one that lands in the last wait of a running export)
UserTask == [Task EXCEPT !.clicks = @ + 1, !.ex.touched = @ \/ ex.pc = "waitFinal"]

CanClick ==
  /\ Idle
  /\ phase = "mounted"
  /\ clicks < MaxClicks

ClickProjection ==
  /\ CanClick
  /\ \E id \in LayerIds \cup {UnknownId} : Commit(HV_changeProjection(UserTask, id))

ClickCenter ==
  /\ CanClick
  /\ \E mode \in CenterArgs : Commit(setCenterMode(UserTask, mode))

ClickView ==
  /\ CanClick
  /\ \E mode \in ViewArgs : Commit(HV_setViewMode(UserTask, mode))

ClickDownloadPdf ==
  /\ CanClick
  /\ variant = "export"
  /\ \E mode \in ViewArgs : Commit(downloadPdf(UserTask, mode))

ExportResume ==
  /\ Idle
  /\ ex.pc \in {"waitSetup", "waitRender", "waitFinal"}
  /\ Commit(exportResume(Task))

ExportCaptured ==
  /\ Idle
  /\ ex.pc = "capturing"
  /\ \E ok \in BOOLEAN : Commit(exportCaptured(Task, ok))

Next ==
  \/ OnMounted
  \/ RunTick
  \/ LoadDone
  \/ CreateTimerFires
  \/ ContainerResize
  \/ ResizeTimerFires
  \/ RetryTimerFires
  \/ Unmount
  \/ ClickProjection
  \/ ClickCenter
  \/ ClickView
  \/ ClickDownloadPdf
  \/ ExportResume
  \/ ExportCaptured

Spec == Init /\ [][Next]_vars

-----------------------------------------------------------------------------
(* MapTab on its own: the parent drives the interface handed out by the       *)
(* map-ready event, over every boundary file and every behaviour of the fit  *)

UnknownType == "NoSuchType"

\* how d3's fitting behaves on the shipped file: it fits, throws or is
\* missing from the projection, and the manual fallback works or throws
MapEnvs ==
  {[fit |-> f, fallback |-> b, features |-> NominalFile] :
     f \in {"ok", "throws", "absent"}, b \in {"ok", "throws"}}

MapInit == Start({"base"}, {<<800, 600>>}, MapEnvs)

CanCall ==
  /\ Idle
  /\ store.mapInstance
  /\ map.isMapReady

\* mapInterface.changeProjection(type, scale); the selections are counted
CallChangeProjection ==
  /\ CanCall
  /\ clicks < MaxCalls
  /\ \E i \in DOMAIN AllLayers \cup {0} :
       Commit(IF i = 0
                THEN MT_changeProjection(UserTask, UnknownType, 1)
                ELSE MT_changeProjection(UserTask, AllLayers[i].type,
                                         AllLayers[i].scale))

\* mapInterface.setMapCenter(mode)
CallSetMapCenter ==
  /\ CanCall
  /\ \E mode \in CenterArgs : Commit(setMapCenter(Task, mode))

\* mapInterface.setViewMode(mode)
CallSetViewMode ==
  /\ CanCall
  /\ \E mode \in ViewArgs : Commit(MT_setViewMode(Task, mode))

\* invalidateSize(), which the component exposes
CallInvalidateSize ==
  /\ CanCall
  /\ Commit(invalidateSize(Task))

MapNext ==
  \/ OnMounted
  \/ RunTick
  \/ LoadDone
  \/ CreateTimerFires
  \/ ResizeNotification
  \/ ResizeTimerFires
  \/ RetryTimerFires
  \/ Unmount
  \/ CallChangeProjection
  \/ CallSetMapCenter
  \/ CallSetViewMode

MapSpec == MapInit /\ [][MapNext]_vars

-----------------------------------------------------------------------------
(* MapTab drawing any boundary file, with a fit that behaves *)

RenderEnvs == {[NominalEnv EXCEPT !.features = file] : file \in WorldFiles}

RenderInit == Start({"base"}, {<<800, 600>>}, RenderEnvs)

RenderNext ==
  \/ OnMounted
  \/ RunTick
  \/ LoadDone
  \/ CallChangeProjection
  \/ CallSetViewMode
  \/ CallInvalidateSize

RenderSpec == RenderInit /\ [][RenderNext]_vars

-----------------------------------------------------------------------------
(* Properties *)

RECURSIVE Drain(_)
\* run the queued nextTick / watcher callbacks to completion
Drain(w) ==
  IF w.ticks = <<>>
    THEN w
    ELSE Drain(runTick([w EXCEPT !.ticks = Tail(@)], Head(w.ticks)))

TypeOfName(layerName) == findLayerByName(layerName).type

\* what the MapTab template shows: the container, with the svg once it exists
VisibleState == IF map.svg THEN "map" ELSE "emptyContainer"

\* C1: whenever viewMode is 'taiwan' the centerMode is 'taiwan', and a
\* setCenterMode with another mode issued in 'taiwan' view changes neither
\* HomeView's centerMode nor MapTab's currentCenterMode.
C1_TaiwanViewForcesTaiwanCenter ==
  /\ hv.viewMode = "taiwan" => hv.centerMode = "taiwan"
  /\ \A mode \in CenterArgs \ {"taiwan"} :
       (Idle /\ hv.viewMode = "taiwan") =>
         LET w == Drain(setCenterMode(Task, mode))
         IN /\ w.hv.centerMode = hv.centerMode
            /\ w.map.currentCenterMode = map.currentCenterMode

\* C2: from every reachable state, setViewMode('taiwan') leaves viewMode =
\* 'taiwan' and centerMode = 'taiwan', in HomeView (either variant) and in
\* MapTab (currentViewMode, currentCenterMode), map ready or not.
C2_SetViewModeTaiwan ==
  /\ LET w == HV_setViewMode(World, "taiwan")
     IN w.hv.viewMode = "taiwan" /\ w.hv.centerMode = "taiwan"
  /\ LET w == MT_setViewMode(World, "taiwan")
     IN w.map.currentViewMode = "taiwan" /\ w.map.currentCenterMode = "taiwan"

\* HomeView.setViewMode('taiwan') has run from another centre and MapTab's own
\* setViewMode('taiwan') has just run from the queue
C2_Witness ==
  /\ hv.viewMode = "taiwan" /\ hv.centerMode = "taiwan"
  /\ map.currentViewMode = "taiwan" /\ map.currentCenterMode = "taiwan"
  /\ map.drawn.viewMode = "taiwan"
  /\ ticks = <<Tick("setMapCenter", "taiwan")>>

\* C3: one setViewMode('taiwan') from world view rebuilds the map exactly once
\* and no rebuild renders a combination other than (taiwan, taiwan).
C3_SingleRebuild ==
  (/\ Idle /\ phase = "mounted" /\ map.isMapReady /\ store.mapInstance
   /\ hv.viewMode = "world" /\ map.currentViewMode = "world")
  => LET w == Drain(HV_setViewMode(Task, "taiwan"))
     IN /\ w.ghost.rebuilds = 1
        /\ w.ghost.combos \subseteq {<<"taiwan", "taiwan">>}

\* C4 as stated: in every variant setViewMode('world') issued in 'taiwan' view
\* sets viewMode to 'world' and leaves centerMode unchanged.
C4_WorldKeepsCenterEveryVariant ==
  /\ hv.viewMode = "taiwan" =>
       LET w == HV_setViewMode(World, "world")
       IN w.hv.viewMode = "world" /\ w.hv.centerMode = hv.centerMode
  /\ map.currentViewMode = "taiwan" =>
       LET w == MT_setViewMode(World, "world")
       IN w.map.currentViewMode = "world"
          /\ w.map.currentCenterMode = map.currentCenterMode

\* C4 amended: setViewMode('world') issued in 'taiwan' view sets viewMode to
\* 'world'; centerMode is left unchanged by HomeView.vue and by MapTab, and is
\* reset to 'origin' by the HomeView that has downloadPdf.
C4_WorldKeepsCenter ==
  /\ hv.viewMode = "taiwan" =>
       LET w == HV_setViewMode(World, "world")
       IN /\ w.hv.viewMode = "world"
          /\ variant = "base" => w.hv.centerMode = hv.centerMode
          /\ variant = "export" => w.hv.centerMode = "origin"
  /\ map.currentViewMode = "taiwan" =>
       LET w == MT_setViewMode(World, "world")
       IN w.map.currentViewMode = "world"
          /\ w.map.currentCenterMode = map.currentCenterMode

\* HomeView.vue left 'taiwan' view and kept the 'taiwan' centre; MapTab has not
\* yet been told
C4_Witness ==
  /\ variant = "base"
  /\ hv.viewMode = "world" /\ hv.centerMode = "taiwan"
  /\ map.currentViewMode = "taiwan"
  /\ ticks = <<Tick("setViewMode", "world")>>

\* C5: changeProjection with an id outside the catalog changes nothing (active
\* projection of HomeView and MapTab, timers, queue), rebuilds and renders
\* nothing and reports an error, map ready or not.
C5_UnknownProjectionIsNoOp ==
  LET w == HV_changeProjection(Task, UnknownId)
  IN /\ w.hv = hv /\ w.map = map /\ w.store = store /\ w.ticks = ticks
     /\ w.ghost.rebuilds = 0 /\ w.ghost.renders = 0
     /\ "unknownProjection" \in w.ghost.reports

\* an unknown id was requested after a selection, before the map was ready
C5_Witness ==
  /\ obs.reports = {"unknownProjection"}
  /\ ~store.mapInstance
  /\ hv.currentProjection = "Conic Conformal"
  /\ map.currentProjectionType = "AzimuthalEquidistant"

\* C6: a projection requested before the map was ready is the one the map
\* shows once the map is ready and no retry is pending.
C6_EarlyRequestTakesEffect ==
  (/\ obs.early /\ phase = "mounted" /\ map.isMapReady
   /\ Idle /\ store.retry = <<>>)
  => map.currentProjectionType = TypeOfName(hv.currentProjection)

\* C7: createProjection and the render steps only ever run with the boundary
\* data loaded, and the surface exists only after the load succeeded.
C7_NoBuildBeforeData ==
  /\ obs.buildData \subseteq {"loaded"}
  /\ map.svg => map.worldData = "loaded"
  /\ map.worldData # "loaded" =>
       /\ invalidateSize(World).ghost.rebuilds = 0
       /\ \A mode \in CenterArgs : Drain(setMapCenter(World, mode)).ghost.rebuilds = 0
       /\ \A mode \in ViewArgs : Drain(MT_setViewMode(World, mode)).ghost.renders = 0
       /\ \A i \in DOMAIN layers :
            HV_changeProjection(World, layers[i].layerId).ghost.renders = 0

\* a resize was debounced and served after the data had loaded
C7_Witness ==
  /\ obs.buildData = {"loaded"}
  /\ map.svg /\ map.worldData = "loaded"
  /\ rect = <<400, 300>>
  /\ map.projection.extent = <<<<32, 32>>, <<368, 268>>>>

\* C8: a failed load is reported, retried, and ends in a visible 'unavailable'
\* state with no map built.
C8_LoadFailureRetriedThenUnavailable ==
  map.loadState = "failed" =>
    /\ obs.loadAttempts > 1
    /\ VisibleState = "unavailable"
    /\ ~map.svg /\ obs.buildData = {}

\* the view state as downloadPdf records it in previousState
ViewStateOf(h) ==
  [projectionId |-> findLayerByName(h.currentProjection).layerId,
   center |-> h.centerMode, view |-> h.viewMode]

\* C9 as stated: when downloadPdf finishes the view state is the one from
\* before the export and isExporting is false; a failed capture selects and
\* captures nothing more, saves nothing and is reported.
C9_ExportRestoresState ==
  /\ (ex.pc = "waitFinal" /\ Idle) =>
       LET w == exportResume(Task)
       IN ViewStateOf(w.hv) = ex.prev /\ ~w.hv.isExporting
  /\ (ex.pc = "capturing" /\ Idle) =>
       LET w == exportCaptured(Task, FALSE)
       IN /\ w.ex.pages = ex.pages /\ w.ex.selected = ex.selected /\ ~w.ex.saved
          /\ "exportFailed" \in w.ghost.reports

\* C9 amended: the cleanup restores the pre-export view state after success
\* and after a failed capture, and it stays restored until downloadPdf finishes
\* unless a user action lands in the cleanup's last render wait; finishing only
\* clears isExporting; a failed capture selects and captures nothing more,
\* saves nothing and is reported.
C9_CleanupRestoresState ==
  /\ (ex.pc = "waitFinal" /\ ~ex.touched) => ViewStateOf(hv) = ex.prev
  /\ (ex.pc = "waitFinal" /\ Idle) =>
       LET w == exportResume(Task)
       IN w.hv = [hv EXCEPT !.isExporting = FALSE] /\ w.ex.pc = "idle"
  /\ (ex.pc = "capturing" /\ Idle) =>
       LET w == exportCaptured(Task, FALSE)
       IN /\ w.ex.pc = "waitFinal" /\ w.ex.failed
          /\ ViewStateOf(w.hv) = ex.prev
          /\ w.ex.pages = ex.pages /\ w.ex.selected = ex.selected /\ ~w.ex.saved
          /\ "exportFailed" \in w.ghost.reports
  /\ ex.failed => (ex.pc = "waitFinal" /\ ~ex.saved)
  /\ ex.pc # "idle" <=> hv.isExporting

\* the second capture of a 'taiwan' export failed; the cleanup has put back
\* the lon120 centre and world view chosen before the export
C9_Witness ==
  /\ ex.pc = "waitFinal" /\ ex.failed /\ ~ex.touched
  /\ Len(ex.pages) = 1 /\ Len(ex.selected) = 2
  /\ ex.targetView = "taiwan"
  /\ ex.prev.center = "lon120" /\ hv.centerMode = "lon120" /\ hv.viewMode = "world"
  /\ "exportFailed" \in obs.reports

\* C10: an export sets the target view and centre and awaits a render before
\* the loop; entries are selected in catalog order, each followed by an awaited
\* render and then its capture; capture k completes before entry k+1 is
\* selected; a successful export produces one page per catalog entry.
C10_ExportSerialized ==
  /\ (Idle /\ ~hv.isExporting /\ store.mapInstance) =>
       \A mode \in ViewArgs :
         LET w == downloadPdf(Task, mode)
         IN /\ w.ex.pc = "waitSetup" /\ w.ex.selected = <<>> /\ w.ex.pages = <<>>
            /\ w.hv.viewMode = mode /\ w.hv.centerMode = (IF mode = "taiwan" THEN "taiwan" ELSE "origin")
  /\ ex.pc = "waitSetup" => (ex.selected = <<>> /\ ~ex.setupWaited)
  /\ ex.selected # <<>> => ex.setupWaited
  /\ Len(ex.selected) = ex.idx
  /\ \A i \in DOMAIN ex.selected : ex.selected[i] = projections[i].layerId
  /\ \A i \in DOMAIN ex.pages : ex.pages[i].name = projections[i].layerName
  /\ Len(ex.pages) <= Len(ex.selected) /\ Len(ex.selected) <= Len(ex.pages) + 1
  /\ ex.pc = "waitRender" => (Len(ex.selected) = Len(ex.pages) + 1 /\ ~ex.waited)
  /\ ex.pc = "capturing" => (Len(ex.selected) = Len(ex.pages) + 1 /\ ex.waited)
  /\ ex.saved => (Len(ex.pages) = Len(projections) /\ ~ex.failed)
  /\ (ex.pc = "waitFinal" /\ ~ex.failed) => ex.saved

\* a complete export: every entry selected and captured in turn, then saved
C10_Witness ==
  /\ ex.pc = "waitFinal" /\ ex.saved
  /\ Len(ex.pages) = Len(projections) /\ Len(ex.selected) = Len(projections)

\* the fit extent of a canvas: its rectangle inset by the padding
ExtentOf(size) ==
  <<<<padding, padding>>, <<size[1] - padding, size[2] - padding>>>>

\* C11: for any canvas size createProjection uses the extent [[32, 32],
\* [w - 32, h - 32]]; invalidateSize rebuilds the projection with the extent
\* of the container's current dimensions, whatever the previous build used,
\* and keeps the projection type, centerMode and viewMode.
C11_ResizeRefits ==
  /\ \A size \in Sizes :
       \A type \in KnownTypes :
         createProjection(World, type, size[1], size[2]).extent
           = <<<<32, 32>>, <<size[1] - 32, size[2] - 32>>>>
  /\ (map.svg /\ map.mapContainer) =>
       LET w == invalidateSize(World)
       IN /\ w.ghost.rebuilds = 1
          /\ w.map.projection.extent = ExtentOf(rect)
          /\ w.map.currentProjectionType = map.currentProjectionType
          /\ w.map.currentCenterMode = map.currentCenterMode
          /\ w.map.currentCenterCoords = map.currentCenterCoords
          /\ w.map.currentViewMode = map.currentViewMode
          /\ w.map.projection.view = map.currentViewMode
          /\ w.map.projection.rotate[1] = 0 - map.currentCenterCoords[1]
  /\ "sizeUpdated" \in obs.reports => map.projection.extent = ExtentOf(rect)

\* the container shrank from 800 x 600 while the map showed another
\* projection in 'taiwan' view, and the debounced invalidateSize has run
C11_Witness ==
  /\ "sizeUpdated" \in obs.reports
  /\ rect = <<400, 300>>
  /\ map.projection.extent = <<<<32, 32>>, <<368, 268>>>>
  /\ map.currentProjectionType = "ConicConformal"
  /\ map.projection.ctor = "ConicConformal"
  /\ map.currentViewMode = "taiwan" /\ map.currentCenterMode = "taiwan"

\* C12: a failure of the fit never propagates: when fitExtent throws, or the
\* projection has no fitExtent, the projection gets the manual scale
\* min(w, h)/2 - 32 and translate (w/2, h/2) (held here doubled); when the
\* fallback throws as well that is caught too; createProjection always
\* returns a projection and no handler ends in an exception.
C12_FitFailureHandled ==
  /\ \A size \in Sizes :
       \A type \in KnownTypes \cup {UnknownType} :
         LET proj == createProjection(World, type, size[1], size[2])
             smaller == IF size[1] < size[2] THEN size[1] ELSE size[2]
         IN /\ proj.ctor \in KnownTypes
            /\ env.fit = "ok" => proj.fitted = "fitExtent"
            /\ (env.fit # "ok" /\ env.fallback = "ok") =>
                 /\ proj.fitted = "manual"
                 /\ proj.scale2 = 2 * ((smaller \div 2) - 32)
                 /\ proj.translate2 = <<2 * (size[1] \div 2), 2 * (size[2] \div 2)>>
            /\ (env.fit # "ok" /\ env.fallback = "throws") => proj.fitted = "none"
  /\ "uncaught" \notin obs.reports
  /\ map.isMapReady => map.projection.ctor \in KnownTypes
  /\ CanCall =>
       \A i \in DOMAIN AllLayers :
         LET w == MT_changeProjection(Task, AllLayers[i].type, AllLayers[i].scale)
         IN /\ ~w.ghost.thrown
            /\ w.map.projection.ctor = AllLayers[i].type
            /\ w.ghost.renders = 1

\* fitExtent threw on every build; after a resize the map is drawn with the
\* manual scale 300/2 - 32 and translate (200, 150)
C12_Witness ==
  /\ env.fit = "throws" /\ env.fallback = "ok"
  /\ "fitExtentFailed" \in obs.reports
  /\ rect = <<400, 300>>
  /\ map.projection.fitted = "manual"
  /\ map.projection.scale2 = 236
  /\ map.projection.translate2 = <<400, 300>>
  /\ map.drawn.proj = map.projection

\* C13: in home-country-only view createProjection fits against the home
\* country's bounds and not the sphere outline, so a projection built in
\* 'taiwan' view has another fit target than one built in 'world' view.
C13_TaiwanViewFitsHomeCountry ==
  (map.isMapReady /\ map.currentViewMode = "taiwan"
   /\ map.projection.view = "taiwan")
  => /\ map.projection.fitTarget # "Sphere"
     /\ map.projection.fitTarget
          # createProjection([World EXCEPT !.map.currentViewMode = "world"],
                             map.currentProjectionType, rect[1], rect[2]).fitTarget

\* C14: for ConicConformal the fitted scale is multiplied by the base scale
\* of the projection's catalog entry, which is the scale changeProjection
\* receives for that entry.
C14_ConicConformalUsesCatalogScale ==
  \A i \in DOMAIN AllLayers :
    (CanCall /\ env.fit = "ok" /\ AllLayers[i].type = "ConicConformal") =>
      LET w == MT_changeProjection(Task, AllLayers[i].type, AllLayers[i].scale)
      IN /\ w.map.currentScale = AllLayers[i].scale
         /\ w.map.projection.multiplier = AllLayers[i].scale

\* C15: asked for a type that is no known identifier, the factory does not
\* proceed: nothing is built or rendered, currentProjectionType keeps its
\* value and 'unknown projection' is signalled.
C15_UnknownTypeRejected ==
  CanCall =>
    LET w == MT_changeProjection(Task, UnknownType, 1)
    IN /\ w.ghost.rebuilds = 0 /\ w.ghost.renders = 0
       /\ w.map.projection = map.projection
       /\ w.map.currentProjectionType = map.currentProjectionType
       /\ "unknownProjection" \in w.ghost.reports

\* the drawn country paths carry exactly the given features, each once
OnePathEach(countries, features) ==
  /\ Len(countries) = Len(features)
  /\ \A j \in DOMAIN features :
       Cardinality({q \in DOMAIN countries : countries[q].datum = features[j]}) = 1

\* C16: on any surface and in either view, running the render steps leaves
\* one sphere outline, one path per kept feature, no grid line and each guide
\* line at most once (all six unless a step threw), and running them a
\* second time changes nothing; so it is on the surface the handlers left,
\* also for files in which two features share a key.
C16_RenderIdempotent ==
  map.svg =>
    /\ dom.sphere = 1
    /\ dom.guides \in {<<>>, guideIds}
    /\ OnePathEach(dom.countries, getFeaturesForView(env.features, map.currentViewMode))
    /\ \A view \in ViewArgs :
         LET op == [step |-> "render", view |-> view]
             once == paint(dom, env.features, op)
             twice == paint(once, env.features, op)
         IN /\ twice = once
            /\ once.sphere = 1 /\ once.gridLines = 0
            /\ OnePathEach(once.countries, getFeaturesForView(env.features, view))
            /\ once.guides \in {<<>>, guideIds}
            /\ ~renderCountriesThrows(env.features, view) => once.guides = guideIds

\* a file with the same country twice, drawn at creation and again after a
\* change of projection: two country paths, one outline, six guides
C16_Witness ==
  /\ env.features = <<"Japan", "Japan">>
  /\ map.currentProjectionType = "Mercator"
  /\ map.drawn.proj.ctor = "Mercator"
  /\ dom.sphere = 1
  /\ Len(dom.countries) = 2
  /\ dom.countries[1].datum = 1 /\ dom.countries[2].datum = 2
  /\ dom.guides = guideIds

\* the feature is a home-country feature: its name, the first present of the
\* tolerated keys, trims to the home country
IsHomeFeature(n) == isHomeCountry(viewName(FeaturePool[n]))

\* C17: in 'taiwan' view the rendered features are exactly the home-country
\* features and each is filled with the distinguishing colour; in 'world'
\* view every feature is rendered and exactly the home-country features get
\* that colour (on files whose features render without an exception).
C17_HomeCountryDrawnAndColoured ==
  (map.svg /\ ~renderCountriesThrows(env.features, map.currentViewMode)) =>
    /\ {dom.countries[q].datum : q \in DOMAIN dom.countries}
         = {r \in DOMAIN env.features :
              map.currentViewMode = "taiwan" => IsHomeFeature(env.features[r])}
    /\ \A q \in DOMAIN dom.countries :
         dom.countries[q].fill = "#ff0000"
           <=> IsHomeFeature(env.features[dom.countries[q].datum])

\* a feature with properties and a geometry d3 can draw
WellFormed(n) == FeaturePool[n].props /\ FeaturePool[n].geom = "ok"

\* C18: rendering is total: a feature with malformed or missing geometry or
\* properties is skipped on its own; the other features of the view, the
\* outline and the guide lines are drawn; no exception escapes drawWorldMap,
\* changeProjection or invalidateSize.
C18_RenderingTotal ==
  /\ "uncaught" \notin obs.reports
  /\ map.svg =>
       /\ dom.sphere = 1 /\ dom.guides = guideIds
       /\ \A q \in DOMAIN dom.countries :
            WellFormed(env.features[dom.countries[q].datum]) =>
              dom.countries[q].d = "path" /\ dom.countries[q].fill # "unset"
  /\ CanCall =>
       /\ ~drawWorldMap(Task).ghost.thrown
       /\ ~invalidateSize(Task).ghost.thrown
       /\ \A i \in DOMAIN AllLayers :
            ~MT_changeProjection(Task, AllLayers[i].type, AllLayers[i].scale).ghost.thrown

\* MapTab as createMap leaves it, with the container, centre and view of w:
\* no selection has been made
BeforeSelections(w) ==
  [w EXCEPT !.map.currentProjectionType = "AzimuthalEquidistant",
            !.map.currentScale = 80,
            !.map.projection =
               createProjection(w, "AzimuthalEquidistant", w.rect[1], w.rect[2]),
            !.map.drawn = [proj |-> NoProjection, centerMode |-> "null",
                           viewMode |-> "null"]]

\* C19: for a fixed canvas size, centerMode and viewMode, selecting a
\* projection after any sequence of selections gives the configuration, the
\* drawn state and the surface that selecting it directly after start-up
\* gives; the configuration of a ready map is the one createProjection
\* computes from its type, the size it was built for, the centre and the view.
C19_RebuildStateless ==
  /\ (map.isMapReady /\ Idle) =>
       map.projection
         = createProjection(World, map.currentProjectionType,
                            map.projection.extent[2][1] + padding,
                            map.projection.extent[2][2] + padding)
  /\ CanCall =>
       \A i \in DOMAIN AllLayers :
         LET after == MT_changeProjection(Task, AllLayers[i].type, AllLayers[i].scale)
             direct == MT_changeProjection(BeforeSelections(Task), AllLayers[i].type,
                                           AllLayers[i].scale)
         IN /\ after.map = direct.map
            /\ after.ghost.rebuilds = 1 /\ after.ghost.renders = 1
            /\ Painted(after) = painted(NoDom, env.features, direct.ghost.paints)

\* ConicConformal is on the map after three selections through the interface
C19_Witness ==
  /\ clicks = 3
  /\ map.currentProjectionType = "ConicConformal"
  /\ map.projection.ctor = "ConicConformal"
  /\ map.drawn.proj = map.projection
  /\ map.currentCenterMode = "lon120"

\* C20: resize notifications are debounced: however many notifications come
\* before the timer fires, one timer is pending; when it fires invalidateSize
\* runs once (one rebuild and one render, once the surface exists) with the
\* container size of that moment, and no timer is left.
C20_ResizeDebounced ==
  /\ map.resizeTimeout <= 1
  /\ map.resizeTimeout > 0 => map.resizeObserver
  /\ (Idle /\ map.resizeTimeout > 0) =>
       LET w == invalidateSize([Task EXCEPT !.map.resizeTimeout = @ - 1])
       IN /\ w.map.resizeTimeout = 0
          /\ w.ghost.rebuilds = (IF map.svg THEN 1 ELSE 0)
          /\ w.ghost.renders = (IF map.svg THEN 1 ELSE 0)
          /\ map.svg => w.map.projection.extent = ExtentOf(rect)
  /\ (obs.burst > 0 /\ "sizeUpdated" \in obs.reports) =>
       /\ map.resizeTimeout = 0
       /\ map.projection.extent = ExtentOf(rect)
       /\ map.drawn.proj = map.projection

\* two notifications in a row, to another size and back to 800 x 600, then
\* the timer: the map was rebuilt once, for 800 x 600
C20_Witness ==
  /\ obs.burst = 2
  /\ "sizeUpdated" \in obs.reports
  /\ map.resizeTimeout = 0
  /\ rect = <<800, 600>>
  /\ map.projection.extent = <<<<32, 32>>, <<768, 568>>>>

\* an argument outside the documented modes
UnknownMode == "NoSuchMode"

\* C21: the view state is well-typed whatever arguments are passed: the
\* active projection names a catalog entry, centerMode is one of origin,
\* taiwan, lon120 and viewMode one of world, taiwan, in HomeView and, once
\* the queued calls have run, in MapTab.
C21_ViewStateWellTyped ==
  /\ findLayerByName(hv.currentProjection) # NoLayer
  /\ hv.centerMode \in CenterArgs /\ hv.viewMode \in ViewArgs
  /\ map.currentCenterMode \in CenterArgs /\ map.currentViewMode \in ViewArgs
  /\ (Idle /\ phase = "mounted" /\ store.mapInstance) =>
       /\ LET w == Drain(HV_changeProjection(Task, UnknownId))
          IN findLayerByName(w.hv.currentProjection) # NoLayer
       /\ LET w == Drain(HV_setViewMode(Task, UnknownMode))
          IN /\ w.hv.viewMode \in ViewArgs /\ w.map.currentViewMode \in ViewArgs
             /\ w.hv.centerMode \in CenterArgs
       /\ LET w == Drain(setCenterMode(Task, UnknownMode))
          IN /\ w.hv.centerMode \in CenterArgs
             /\ w.map.currentCenterMode \in CenterArgs

\* the rotation a centre mode asks for, in units of 1e-7 degree
RotationOf(mode) ==
  IF mode = "taiwan" THEN <<0 - 1209820246, 0 - 239738747, 0>>
  ELSE IF mode = "lon120" THEN <<0 - 1200000000, 0, 0>>
  ELSE <<0, 0, 0>>

C23_CatalogLookup ==
  /\ \A i \in DOMAIN layers :
       /\ findLayerById(layers[i].layerId) = layers[i]
       /\ \A j \in DOMAIN layers : layers[i].layerId = layers[j].layerId => i = j
  /\ findLayerById(UnknownId) = NoLayer
  /\ \A id \in LayerIds \cup {UnknownId} :
       findLayerById(id) # NoLayer => findLayerById(id).layerId = id
  /\ Len(getAllLayers) = Len(layers)
  /\ \A i \in DOMAIN layers : getAllLayers[i] = layers[i]
  /\ (Idle /\ phase = "mounted" /\ store.mapInstance) =>
       \A id \in LayerIds \cup {UnknownId} :
         LET w == DS_changeProjection(Task, id)
         IN /\ w.store = store
            /\ id \in LayerIds =>
                 (map.svg => w.map.currentProjectionType = findLayerById(id).type)

\* the third entry of the catalog was looked up by its id and is on the map
C23_Witness ==
  /\ clicks > 0
  /\ store.mapInstance /\ map.isMapReady
  /\ hv.currentProjection = layers[3].layerName
  /\ map.currentProjectionType = layers[3].type
  /\ map.drawn.proj.ctor = layers[3].type
  /\ Idle

\* the width of the fit extent of a projection
extentWidth(proj) == proj.extent[2][1] - proj.extent[1][1]

\* the width of the projected sphere outline, for the projection types whose
\* outline is as wide as the extent after fitExtent (the limiting dimension
\* of a landscape canvas apart, it is narrower): fitExtent makes the bounding
\* box of the outline fill the extent, and a later proj.scale(k * m)
\* multiplies the box by m
outlineWidth(proj) == proj.multiplier * extentWidth(proj)

\* C24: for every catalog entry and every canvas of at least 100 x 100, the
\* projection built for the default view state (origin, world) maps the
\* sphere outline inside [[32, 32], [w - 32, h - 32]]: no final scale makes
\* the outline wider than the padded canvas.
C24_OutlineWithinPaddedCanvas ==
  (/\ map.isMapReady /\ env.fit = "ok"
   /\ map.currentCenterMode = "origin" /\ map.currentViewMode = "world"
   /\ map.projection.view = "world" /\ map.projection.rotate = <<0, 0, 0>>
   /\ map.projection.extent[2][1] + padding >= 100
   /\ map.projection.extent[2][2] + padding >= 100)
  => /\ map.projection.fitted = "fitExtent"
     /\ outlineWidth(map.projection) <= extentWidth(map.projection)

\* C25: last selection wins across retries: a retry timer that fires on a
\* ready map showing the projection selected last leaves it showing that
\* projection, so that once every retry has fired the map shows the most
\* recent selection; the retry of a request made before the map was ready
\* never overrides a selection applied since.
C25_LastSelectionWins ==
  [][(/\ store.retry # <<>> /\ store'.retry = Tail(store.retry)
      /\ store.mapInstance /\ map.isMapReady
      /\ map.currentProjectionType = TypeOfName(hv.currentProjection))
     => map'.currentProjectionType = TypeOfName(hv'.currentProjection)]_vars

\* C26: HomeView and MapTab agree on centre and view: once the map is ready
\* and the queued nextTick callbacks have run, MapTab's currentCenterMode and
\* currentViewMode are HomeView's centerMode and viewMode, whatever
\* setCenterMode and setViewMode calls were made before or after map-ready.
C26_CenterAndViewAgree ==
  (Idle /\ phase = "mounted" /\ map.isMapReady /\ store.mapInstance)
  => /\ map.currentCenterMode = hv.centerMode
     /\ map.currentViewMode = hv.viewMode

\* C27: each exported page shows the projection it is labelled with: at
\* every capture of downloadPdf the map's currentProjectionType is the type
\* of the catalog entry whose name is written on the page, whatever the user
\* does at the export's wait points.
C27_PageShowsItsProjection ==
  phase = "mounted" =>
    /\ ex.pc = "capturing" => ex.captured = projections[ex.idx].type
    /\ \A i \in DOMAIN ex.pages : ex.pages[i].shown = TypeOfName(ex.pages[i].name)

\* C28: exports are mutually exclusive: isExporting is true exactly while a
\* downloadPdf run is between its start and the end of its cleanup; a
\* downloadPdf call made during a run, or without a map, returns without
\* touching the view state, isExporting or the run in progress, so a run only
\* ever starts when none is in progress.
C28_ExportsExclusive ==
  /\ hv.isExporting <=> ex.pc # "idle"
  /\ variant = "base" => ~hv.isExporting
  /\ "exportBusy" \in obs.reports => hv.isExporting
  /\ (Idle /\ phase = "mounted") =>
       \A mode \in ViewArgs :
         LET w == downloadPdf(Task, mode)
         IN /\ (hv.isExporting \/ ~store.mapInstance) =>
                 /\ w.hv = hv /\ w.ex = ex /\ w.ticks = ticks
                 /\ w.map = map /\ w.store = store
            /\ (~hv.isExporting /\ ~store.mapInstance) =>
                 "exportWithoutMap" \in w.ghost.reports
            /\ w.ex.pc = "waitSetup" /\ w.ex.selected = <<>> /\ ex.pc # "waitSetup"
                 => (ex.pc = "idle" /\ ~hv.isExporting /\ w.hv.isExporting)

\* a second download click landed while the first export was waiting for its
\* set-up render, and left it waiting
C28_Witness ==
  /\ "exportBusy" \in obs.reports
  /\ clicks = 2
  /\ hv.isExporting /\ ex.pc = "waitSetup" /\ ex.targetView = "taiwan"
  /\ hv.viewMode = "taiwan" /\ hv.centerMode = "taiwan"

\* C29: after MapTab is unmounted no projection is built and nothing is
\* rendered: there is no surface, no projection, no pending resize, and a
\* late load completion, a createMap retry, invalidateSize, a retried
\* selection and changeProjection, setMapCenter or setViewMode through the
\* map instance the store still holds build and draw nothing.
C29_NothingBuiltAfterUnmount ==
  phase = "unmounted" =>
    /\ ~map.svg /\ ~map.isMapReady /\ ~map.mapContainer
    /\ map.projection = NoProjection /\ map.drawn.proj = NoProjection
    /\ dom = NoDom
    /\ map.resizeTimeout = 0 /\ ~map.resizeObserver
    /\ \A w \in {loadDone(Task, TRUE), tryCreateMap(Task), invalidateSize(Task)} :
         /\ w.ghost.rebuilds = 0 /\ w.ghost.renders = 0 /\ w.ghost.paints = <<>>
         /\ ~w.map.svg /\ w.map.projection = NoProjection
    /\ \A id \in LayerIds :
         LET w == Drain(retryChangeProjection(Task, id))
         IN w.ghost.rebuilds = 0 /\ w.ghost.renders = 0 /\ w.ghost.paints = <<>>
    /\ \A i \in DOMAIN AllLayers :
         LET w == MT_changeProjection(Task, AllLayers[i].type, AllLayers[i].scale)
         IN w.ghost.rebuilds = 0 /\ w.ghost.renders = 0 /\ w.map.projection = NoProjection
    /\ \A mode \in CenterArgs :
         LET w == setMapCenter(Task, mode)
         IN w.ghost.rebuilds = 0 /\ w.ghost.renders = 0 /\ w.map.projection = NoProjection
    /\ \A mode \in ViewArgs :
         LET w == MT_setViewMode(Task, mode)
         IN w.ghost.rebuilds = 0 /\ w.ghost.renders = 0 /\ w.map.projection = NoProjection

\* the boundary file arrived after the component was unmounted: createMap was
\* tried on a container of 800 x 600 that is gone, and a retry is pending,
\* while the store still holds nothing to draw on
C29_Witness ==
  /\ phase = "unmounted"
  /\ map.worldData = "loaded" /\ map.attempts > 0 /\ map.createTimer
  /\ rect = <<800, 600>>
  /\ ~map.svg /\ dom = NoDom /\ map.projection = NoProjection

\* C30: createMap is attempted at most maxAttempts = 20 times, one retry
\* timer at a time, and only once the boundary data is loaded; after the
\* first success no attempt is left, so there is one surface and one
\* map-ready per mount; after 20 failures nothing is scheduled any more and
\* the map is never created, also when the container gets a size later.
C30_CreationAttemptsBounded ==
  /\ map.attempts <= maxAttempts
  /\ (map.attempts > 0 \/ map.createTimer) => map.worldData = "loaded"
  /\ map.createTimer => (map.attempts \in 1..maxAttempts /\ ~map.svg)
  /\ (map.svg \/ map.isMapReady \/ store.mapInstance) =>
       /\ ~map.createTimer /\ map.attempts = 0 /\ map.loadState = "loaded"
  /\ map.isMapReady => map.svg
  /\ "initFailed" \in obs.reports => map.attempts = maxAttempts
  /\ (map.attempts = maxAttempts /\ ~map.createTimer) =>
       /\ ~map.svg /\ ~map.isMapReady /\ ~store.mapInstance
       /\ map.loadState = "loaded"
       /\ \A size \in Sizes :
            LET resized == [Task EXCEPT !.rect = size]
            IN /\ ~invalidateSize(resized).map.svg
               /\ ~tryCreateMap(resized).map.svg
               /\ ~tryCreateMap(resized).map.createTimer

\* the container had no size for 20 attempts; it has one now, the debounced
\* resize has run, and there is still no map
C30_Witness ==
  /\ phase = "mounted" /\ map.mapContainer
  /\ map.attempts = 20 /\ ~map.createTimer
  /\ rect = <<800, 600>> /\ map.resizeTimeout = 0
  /\ ~map.svg /\ ~store.mapInstance /\ dom = NoDom

====
